---- MODULE Spec2Model ----
(***************************************************************************)
(* Extraction task orchestrator of the DeepTime KG Extractor (src/App.tsx): *)
(* processBatch (worker pool over a shared queue with round-robin keys),    *)
(* handleExtractionWorkflow (rate-limit degradation and restart) and        *)
(* handleStopExtraction (cooperative cancellation).                         *)
(*                                                                         *)
(* One step of the model is one synchronous run of JavaScript between two   *)
(* awaits: a worker's continuation after its taskFunction promise settles,  *)
(* the workflow's continuation after Promise.all settles, or a user event.  *)
(*                                                                         *)
(* Specifications:                                                         *)
(*   Spec, FairSpec  one handleExtractionWorkflow call, opaque callbacks    *)
(*   CacheSpec       handleStartExtraction in turbo mode, called up to      *)
(*                   MaxCalls times over the result cache in localStorage   *)
(*   HashSpec        simpleHash and the cache key (src/App.tsx)             *)
(*   RestartSpec     CacheSpec with the New Session button and a second     *)
(*                   handleStartExtraction call while the first awaits      *)
(*   ScanSpec        the stream scanner of extractEntities                  *)
(*   StreamSpec      the streaming extract functions and their callbacks    *)
(*   DedupeSpec      dedupeCandidates (stratigraphyPreprocess.ts)           *)
(***************************************************************************)
EXTENDS Integers, Sequences, FiniteSets, TLC

\* ---- bounds of the model ----
MaxTasks == 3
MaxKeys == 3
MaxLimit == 3

\* ---- error messages a worker invocation can reject with ----
RateLimitMsg == "429 - Rate limit exceeded."
InvalidKeyMsg == "The provided Gemini API key is not valid."
AbortedMsg == "Aborted"
ErrorMessages == {RateLimitMsg, InvalidKeyMsg, AbortedMsg}

\* e.message.includes("429")
Includes429(msg) == msg \in {RateLimitMsg}

Min2(a, b) == IF a <= b THEN a ELSE b
Max2(a, b) == IF a >= b THEN a ELSE b

VARIABLES
    concurrencyLimit,     \* App state: configured limit (>= 1)
    apiKeys,              \* App state: sequence of credentials
    initialItems,         \* argument of handleExtractionWorkflow
    pc,                   \* position of handleExtractionWorkflow
    itemsRemaining,       \* local of handleExtractionWorkflow
    effectiveConcurrency, \* local of handleExtractionWorkflow
    isSuccess,            \* local of handleExtractionWorkflow
    batches,              \* one record per processBatch call: its closure
                          \* (and, as history, what it dequeued in order)
    workers,              \* one record per runTask() promise
    signals,              \* the aborted flag of each AbortController made
    managedFiles,         \* file name -> status {step, message}
    error,                \* messages appended by setError
    invoked,              \* history: taskFunction calls per item
    emitted,              \* history: onResult calls per item
    succeeded,            \* history: items whose invocation resolved
    succeededAtAbort,     \* history: value of succeeded when abort was set
    raised,               \* history: rejections of taskFunction, each with
                          \* effectiveConcurrency, the number of processBatch
                          \* calls and the item's invocations at that moment
    preprocess,           \* locals of one dedupeCandidates call
    hasher,               \* two schema snapshots and their cache keys
    scanner,              \* locals of one extractEntities stream
    caller,               \* which handler supplied task and onResult
    fileTexts,            \* getTextForFile of each selected file
    localStorage,         \* window.localStorage, by cache key
    localResults,         \* the localResults map of the current call
    cacheHits,            \* the files the current call answered from cache
    lookups,              \* the getItem calls since the last setItem
    lastPut,              \* by cache key: the result last given to setItem
    calls,                \* handleStartExtraction calls so far
    degradedBefore,       \* an earlier call switched to sequential mode
    step                  \* the step state of the App component (setStep)

vars == <<concurrencyLimit, apiKeys, initialItems, pc, itemsRemaining,
          effectiveConcurrency, isSuccess, batches, workers, signals,
          managedFiles, error, invoked, emitted, succeeded,
          succeededAtAbort, raised, preprocess, hasher,
          scanner, caller, fileTexts, localStorage, localResults,
          cacheHits, lookups, lastPut, calls, degradedBefore, step>>

\* the state of the pure functions, which the orchestrator never touches
\* abortControllerRef.current.signal.aborted
aborted == signals[Len(signals)]

cacheVars == <<caller, fileTexts, localStorage, localResults, cacheHits,
               lookups, lastPut, calls, degradedBefore, step>>
pureVars == <<preprocess, hasher, scanner>>

\* a function that is not running
Idle == [pc |-> "idle"]

config == <<concurrencyLimit, apiKeys, initialItems>>

NoItem == 0

Iota(n) == [i \in 1..n |-> i]

\* variant that forgets the size of the credential pool
InitialConcurrencySticky(limit, nKeys, nItems) ==
    IF effectiveConcurrency = 0
    THEN Max2(1, Min2(limit, Min2(nKeys, nItems)))
    ELSE Min2(effectiveConcurrency, Max2(1, Min2(limit, Min2(nKeys, nItems))))

InitialConcurrencyIgnoringKeys(limit, nKeys, nItems) ==
    Max2(1, Min2(limit, nItems))

\* Math.max(1, Math.min(concurrencyLimit, apiKeys.length, itemsRemaining.length))
InitialConcurrency(limit, nKeys, nItems) ==
    Max2(1, Min2(limit, Min2(nKeys, nItems)))

\* variant that increments the cursor before using it
KeyForIncrementFirst(keys, keyIndex) == keys[((keyIndex + 1) % Len(keys)) + 1]

\* keys[keyIndex % keys.length]
KeyFor(keys, keyIndex) == keys[(keyIndex % Len(keys)) + 1]

\* variant that never looks at the abort signal
CanDequeueIgnoringAbort(queue, isAborted) == Len(queue) > 0

\* while (queue.length > 0) { if (signal.aborted) return; ... }
CanDequeue(queue, isAborted) == Len(queue) > 0 /\ ~isAborted

\* variant without the test
ShouldEmitAlways(isAborted) == TRUE

\* variant with the test inverted
ShouldEmitInverted(isAborted) == isAborted

\* if (!signal.aborted) onResult(item, result)
ShouldEmit(isAborted) == ~isAborted

\* itemsRemaining.filter(item => item !== e.failedItem)
FilterOut(items, failed) == SelectSeq(items, LAMBDA x: x # failed)

\* variant that forgets to put the failed item back
RequeueWithoutPush(items, failed) == FilterOut(items, failed)

\* the filter of line 271 followed by the push of line 281
Requeue(items, failed) == Append(FilterOut(items, failed), failed)

\* updateFileStatus: merge newStatus into the status of the named file
UpdateStep(files, name, status) ==
    IF name \in DOMAIN files THEN [files EXCEPT ![name].step = status] ELSE files

UpdateStepMessage(files, name, status, message) ==
    IF name \in DOMAIN files
    THEN [files EXCEPT ![name] = [step |-> status, message |-> message]]
    ELSE files

\* ---- simpleHash and the cache key ----
MaxSchemaKeys == 3

SchemaKeys == {"a", "b", "c"}
SchemaValues == {"x", "y"}
Texts == {<<"a">>, <<"a", "b">>}

\* String.prototype.charCodeAt for the characters that occur
CharCode(c) ==
    CASE c = "{" -> 123
      [] c = "}" -> 125
      [] c = "\"" -> 34
      [] c = ":" -> 58
      [] c = "," -> 44
      [] c = "a" -> 97
      [] c = "b" -> 98
      [] c = "c" -> 99
      [] c = "x" -> 120
      [] c = "y" -> 121

\* a 32-bit integer as two 16-bit halves
Half == 65536
Word(hi, lo) == [hi |-> hi, lo |-> lo]

\* hash = (hash << 5) - hash + char; hash |= 0
HashStep(hash, code) ==
    LET lo == hash.lo * 31 + code
    IN Word((hash.hi * 31 + lo \div Half) % Half, lo % Half)

RECURSIVE HashFrom(_, _, _)
HashFrom(str, i, hash) ==
    IF i > Len(str) THEN hash
    ELSE HashFrom(str, i + 1, HashStep(hash, CharCode(str[i])))

\* hash.toString(): the signed decimal value
ToSigned(hash) ==
    IF hash.hi >= Half \div 2
    THEN (hash.hi - Half) * Half + hash.lo
    ELSE hash.hi * Half + hash.lo

simpleHash(str) == ToSigned(HashFrom(str, 1, Word(0, 0)))

\* an object as JavaScript keeps it: its properties in insertion order
OrderedObjects ==
    {o \in UNION {[1..n -> [key : SchemaKeys, value : SchemaValues]] :
                     n \in 0..MaxSchemaKeys} :
        \A i, j \in DOMAIN o : o[i].key = o[j].key => i = j}

SameContent(o1, o2) ==
    {o1[i] : i \in DOMAIN o1} = {o2[i] : i \in DOMAIN o2}

\* JSON.stringify of an object with string values: properties in insertion
\* order, no whitespace
RECURSIVE StringifyFrom(_, _)
StringifyFrom(o, i) ==
    IF i > Len(o) THEN <<>>
    ELSE (IF i > 1 THEN <<",">> ELSE <<>>)
         \o <<"\"", o[i].key, "\"", ":", "\"", o[i].value, "\"">>
         \o StringifyFrom(o, i + 1)

JSONStringify(o) == <<"{">> \o StringifyFrom(o, 1) \o <<"}">>

\* `${textHash}-${schemaHash}-${modelName}-${isTurboMode}`
CacheKey(text, schema, modelName, turbo) ==
    <<simpleHash(text), "-", simpleHash(JSONStringify(schema)), "-",
      modelName, "-", turbo>>

\* ---- the result cache in localStorage ----
MaxFiles == 2
MaxCalls == 2

\* the schema, model and mode of the session
SessionSchema == <<[key |-> "a", value |-> "x"]>>
SessionModel == "gemini-2.5-flash"

FileKey(text) == CacheKey(text, SessionSchema, SessionModel, TRUE)
CacheKeys == {FileKey(text) : text \in Texts}

\* the results a task may resolve with: the entity names found
Results == {<<>>, <<"a">>}

\* JSON.stringify(result), as tokens
RECURSIVE StringifyNames(_, _)
StringifyNames(names, i) ==
    IF i > Len(names) THEN <<>>
    ELSE (IF i > 1 THEN <<",">> ELSE <<>>) \o <<"\"", names[i], "\"">>
         \o StringifyNames(names, i + 1)

ResultStringify(result) ==
    <<"{", "entities", ":", "[">> \o StringifyNames(result, 1) \o <<"]", "}">>

\* the names between the brackets, or a failure
RECURSIVE ParseNames(_, _)
ParseNames(tokens, acc) ==
    IF tokens = <<>> THEN [ok |-> TRUE, value |-> acc]
    ELSE IF acc # <<>> /\ Head(tokens) # "," THEN [ok |-> FALSE]
    ELSE LET t == IF acc # <<>> THEN Tail(tokens) ELSE tokens
         IN IF Len(t) >= 3 /\ t[1] = "\"" /\ t[3] = "\""
            THEN ParseNames(SubSeq(t, 4, Len(t)), Append(acc, t[2]))
            ELSE [ok |-> FALSE]

\* JSON.parse(cachedData): throws on text that is not a complete object
ResultParse(data) ==
    IF /\ Len(data) >= 6
       /\ SubSeq(data, 1, 4) = <<"{", "entities", ":", "[">>
       /\ SubSeq(data, Len(data) - 1, Len(data)) = <<"]", "}">>
    THEN ParseNames(SubSeq(data, 5, Len(data) - 2), <<>>)
    ELSE [ok |-> FALSE]

Absent == [present |-> FALSE]
Stored(data) == [present |-> TRUE, data |-> data]
Truncated == <<"{", "entities">>

\* localStorage.getItem(key)
GetItem(storage, key) == storage[key]

SetItemDropped(storage, key, data) == storage

\* localStorage.setItem(key, data)
SetItem(storage, key, data) == [storage EXCEPT ![key] = Stored(data)]

Miss == [hit |-> FALSE]
Hit(result) == [hit |-> TRUE, result |-> result]

\* if (cachedData) { try { JSON.parse(cachedData) } catch { ... } }
Lookup(storage, key) ==
    LET cachedData == GetItem(storage, key)
    IN IF cachedData.present /\ cachedData.data # <<>>
          /\ ResultParse(cachedData.data).ok
       THEN Hit(ResultParse(cachedData.data).value)
       ELSE Miss

NoResult == [has |-> FALSE]
HasResult(result) == [has |-> TRUE, result |-> result]

NeverPut == [put |-> FALSE]
Put(result) == [put |-> TRUE, result |-> result]

\* the files of a call that have selected text
WithText(texts) == {f \in DOMAIN texts : texts[f] # <<>>}

CachedFiles(texts, storage) ==
    {f \in WithText(texts) : Lookup(storage, FileKey(texts[f])).hit}

RECURSIVE PushFrom(_, _, _)
PushFrom(texts, hits, f) ==
    IF f > Len(texts) THEN <<>>
    ELSE (IF f \in WithText(texts) /\ f \notin hits THEN <<f>> ELSE <<>>)
         \o PushFrom(texts, hits, f + 1)

AllFilesWithText(texts, storage) == PushFrom(texts, {}, 1)

\* the for loop of the cache check: the files pushed for remote processing
FilesToProcessRemotely(texts, storage) ==
    PushFrom(texts, CachedFiles(texts, storage), 1)

\* the getItem calls of the cache check, in order
RECURSIVE LookupsFrom(_, _, _)
LookupsFrom(texts, storage, f) ==
    IF f > Len(texts) THEN <<>>
    ELSE (IF f \in WithText(texts)
          THEN <<[key |-> FileKey(texts[f]),
                  answer |-> Lookup(storage, FileKey(texts[f]))]>>
          ELSE <<>>) \o LookupsFrom(texts, storage, f + 1)

\* onResult of the turbo task: localResults.set and localStorage.setItem
TurboOnResult(item, result) ==
    LET cacheKey == FileKey(fileTexts[item])
    IN /\ localResults' = [localResults EXCEPT ![item] = HasResult(result)]
       /\ localStorage' = SetItem(localStorage, cacheKey,
                                  ResultStringify(result))
       /\ lastPut' = [lastPut EXCEPT ![cacheKey] = Put(result)]
       /\ lookups' = <<>>

\* ---- processBatch ----
\* The scheduler state a synchronous run of runTask touches.
Sched == [batches |-> batches, workers |-> workers,
          managedFiles |-> managedFiles, invoked |-> invoked,
          signals |-> signals]

RunTaskWithoutShift(s, w) ==
    LET b == s.workers[w].batch
        queue == s.batches[b].queue
    IN IF CanDequeue(queue, s.signals[s.batches[b].signal])
       THEN LET item == Head(queue)
                apiKey == KeyFor(apiKeys, s.batches[b].keyIndex)
            IN [s EXCEPT !.batches[b].keyIndex = @ + 1,
                         !.batches[b].dequeued = Append(@,
                             [item |-> item, apiKey |-> apiKey]),
                         !.workers[w] = [batch |-> b, st |-> "inflight",
                                         item |-> item, apiKey |-> apiKey],
                         !.managedFiles = UpdateStep(@, item, "extracting"),
                         !.invoked[item] = @ + 1]
       ELSE [s EXCEPT !.workers[w].st = "returned"]

\* runTask from its loop head up to the next await (or its return)
RunTask(s, w) ==
    LET b == s.workers[w].batch
        queue == s.batches[b].queue
    IN IF CanDequeue(queue, s.signals[s.batches[b].signal])
       THEN LET item == Head(queue)
                apiKey == KeyFor(apiKeys, s.batches[b].keyIndex)
            IN [s EXCEPT !.batches[b].queue = Tail(queue),
                         !.batches[b].keyIndex = @ + 1,
                         !.batches[b].dequeued = Append(@,
                             [item |-> item, apiKey |-> apiKey]),
                         !.workers[w] = [batch |-> b, st |-> "inflight",
                                         item |-> item, apiKey |-> apiKey],
                         !.managedFiles = UpdateStep(@, item, "extracting"),
                         !.invoked[item] = @ + 1]
       ELSE [s EXCEPT !.workers[w].st = "returned"]

SettleAllNever(s, b) == s

\* Promise.all(workers) resolves once every runTask promise has resolved
SettleAll(s, b) ==
    IF /\ s.batches[b].settled = "pending"
       /\ \A w \in DOMAIN s.workers :
            s.workers[w].batch = b => s.workers[w].st = "returned"
    THEN [s EXCEPT !.batches[b].settled = "resolved"]
    ELSE s

\* Array(concurrency).fill(null).map(runTask): start the workers one by one
RECURSIVE SpawnWorkers(_, _, _)
SpawnWorkers(s, b, k) ==
    IF k = 0 THEN s
    ELSE LET w == Len(s.workers) + 1
             s1 == [s EXCEPT !.workers = Append(@,
                        [batch |-> b, st |-> "starting",
                         item |-> NoItem, apiKey |-> NoItem])]
         IN SpawnWorkers(RunTask(s1, w), b, k - 1)

ProcessBatch(s, itemsToProcess, concurrency) ==
    LET b == Len(s.batches) + 1
        s1 == [s EXCEPT !.batches = Append(@,
                    [queue |-> itemsToProcess, keyIndex |-> 0,
                     signal |-> Len(s.signals),
                     dequeued |-> <<>>,
                     settled |-> "pending", failedItem |-> NoItem,
                     message |-> ""])]
    IN SettleAll(SpawnWorkers(s1, b, concurrency), b)

InFlight == {w \in DOMAIN workers : workers[w].st = "inflight"}

\* ---- handleExtractionWorkflow ----
\* The while loop from its head up to the await of processBatch or the return
LoopHead(items, concurrency, success, errs, sched) ==
    IF Len(items) = 0 \/ sched.signals[Len(sched.signals)]
    THEN /\ pc' = "returned"
         /\ isSuccess' = (success /\ Len(items) = 0)
         /\ itemsRemaining' = items
         /\ effectiveConcurrency' = concurrency
         /\ error' = errs
         /\ batches' = sched.batches
         /\ workers' = sched.workers
         /\ managedFiles' = sched.managedFiles
         /\ invoked' = sched.invoked
    ELSE LET s == ProcessBatch(sched, items, concurrency)
         IN /\ pc' = "await"
            /\ isSuccess' = success
            /\ itemsRemaining' = items
            /\ effectiveConcurrency' = concurrency
            /\ error' = errs
            /\ batches' = s.batches
            /\ workers' = s.workers
            /\ managedFiles' = s.managedFiles
            /\ invoked' = s.invoked

\* the orchestrator before handleExtractionWorkflow is called
InitWorkflow ==
    /\ pc = "idle"
    /\ itemsRemaining = <<>>
    /\ effectiveConcurrency = 0
    /\ isSuccess = TRUE
    /\ batches = <<>>
    /\ workers = <<>>
    /\ signals = <<FALSE>>
    /\ managedFiles = [f \in 1..Len(initialItems) |->
                          [step |-> "ready", message |-> ""]]
    /\ error = <<>>
    /\ invoked = [f \in 1..Len(initialItems) |-> 0]
    /\ emitted = [f \in 1..Len(initialItems) |-> 0]
    /\ succeeded = {}
    /\ succeededAtAbort = {}
    /\ raised = {}

PureIdle == preprocess = Idle /\ hasher = Idle /\ scanner = Idle

\* handleExtractionWorkflow on its own: task and onResult are opaque
CacheIdle ==
    /\ caller = "none"
    /\ fileTexts = <<>>
    /\ localStorage = <<>>
    /\ localResults = <<>>
    /\ cacheHits = {}
    /\ lookups = <<>>
    /\ lastPut = <<>>
    /\ calls = 0
    /\ degradedBefore = FALSE
    /\ step = "ready"

Init ==
    /\ concurrencyLimit \in 1..MaxLimit
    /\ apiKeys \in {Iota(n) : n \in 1..MaxKeys}
    /\ initialItems \in {Iota(n) : n \in 1..MaxTasks}
    /\ InitWorkflow
    /\ CacheIdle
    /\ PureIdle

\* handleExtractionWorkflow is called (lines 255-257, then the loop)
StartWorkflow ==
    /\ pc = "idle"
    /\ LoopHead(initialItems,
                InitialConcurrency(concurrencyLimit, Len(apiKeys),
                                   Len(initialItems)),
                TRUE, error, Sched)
    /\ UNCHANGED <<config, signals, emitted, succeeded, succeededAtAbort,
                   raised, cacheVars, pureVars>>

\* the taskFunction promise of worker w resolves (lines 237-238, then the loop)
TaskReturns(w, result) ==
    /\ w \in InFlight
    /\ result \in Results
    /\ LET item == workers[w].item
           b == workers[w].batch
           s == SettleAll(RunTask(Sched, w), b)
       IN /\ emitted' = IF ShouldEmit(signals[batches[b].signal])
                        THEN [emitted EXCEPT ![item] = @ + 1]
                        ELSE emitted
          /\ IF ShouldEmit(signals[batches[b].signal])
                /\ caller = "handleStartExtraction"
             THEN TurboOnResult(item, result)
             ELSE UNCHANGED <<localStorage, localResults, lookups, lastPut>>
          /\ succeeded' = succeeded \cup {item}
          /\ batches' = s.batches
          /\ workers' = s.workers
          /\ managedFiles' = s.managedFiles
          /\ invoked' = s.invoked
    /\ UNCHANGED <<config, pc, itemsRemaining, effectiveConcurrency,
                   isSuccess, signals, error, succeededAtAbort, raised,
                   caller, fileTexts, cacheHits, calls, degradedBefore,
                   step, pureVars>>

\* the taskFunction promise of worker w rejects (lines 239-242); Promise.all
\* rejects with the first rejection and ignores the later ones
TaskThrows(w, msg) ==
    /\ w \in InFlight
    /\ msg \in ErrorMessages
    /\ msg = AbortedMsg => signals[batches[workers[w].batch].signal]
    /\ LET item == workers[w].item
           b == workers[w].batch
       IN /\ workers' = [workers EXCEPT ![w].st = "thrown"]
          /\ batches' = IF batches[b].settled = "pending"
                        THEN [batches EXCEPT ![b].settled = "rejected",
                                             ![b].failedItem = item,
                                             ![b].message = msg]
                        ELSE batches
          /\ raised' = raised \cup
                         {[item |-> item, message |-> msg, batch |-> b,
                           workflow |-> pc,
                           concurrency |-> effectiveConcurrency,
                           runs |-> Len(batches),
                           invocations |-> invoked[item]]}
    /\ UNCHANGED <<config, pc, itemsRemaining, effectiveConcurrency,
                   isSuccess, signals, managedFiles, error, invoked, emitted,
                   succeeded, succeededAtAbort, cacheVars, pureVars>>

SequentialConcurrencyRaised == effectiveConcurrency + 1

\* effectiveConcurrency = 1 after a rate limit
SequentialConcurrency == 1

\* the await of processBatch settles (lines 267-289, then the loop)
ResumeWorkflow ==
    /\ pc = "await"
    /\ LET b == Len(batches)
           failedItemName == batches[b].failedItem
           message == batches[b].message
       IN \/ /\ batches[b].settled = "resolved"
             /\ LoopHead(<<>>, effectiveConcurrency, isSuccess, error,
                         Sched)
          \/ /\ batches[b].settled = "rejected"
             /\ Includes429(message)
             /\ effectiveConcurrency = 1
             /\ pc' = "returned"
             /\ isSuccess' = FALSE
             /\ itemsRemaining' = FilterOut(itemsRemaining, failedItemName)
             /\ error' = Append(error, [kind |-> "RateLimitStop",
                                        file |-> failedItemName,
                                        message |-> message])
             /\ managedFiles' = UpdateStepMessage(managedFiles,
                                    failedItemName, "error", "Rate limited")
             /\ UNCHANGED <<effectiveConcurrency, batches, workers, invoked>>
          \/ /\ batches[b].settled = "rejected"
             /\ Includes429(message)
             /\ effectiveConcurrency # 1
             /\ LoopHead(Requeue(itemsRemaining, failedItemName),
                         SequentialConcurrency,
                         isSuccess,
                         Append(error, [kind |-> "RateLimitSwitch",
                                        file |-> NoItem,
                                        message |-> message]),
                         Sched)
          \/ /\ batches[b].settled = "rejected"
             /\ ~Includes429(message)
             /\ pc' = "returned"
             /\ isSuccess' = FALSE
             /\ error' = Append(error, [kind |-> "Failed",
                                        file |-> failedItemName,
                                        message |-> message])
             /\ managedFiles' = UpdateStepMessage(managedFiles,
                                    failedItemName, "error", message)
             /\ UNCHANGED <<itemsRemaining, effectiveConcurrency, batches,
                            workers, invoked>>
    /\ UNCHANGED <<config, signals, emitted, succeeded, succeededAtAbort,
                   raised, cacheVars, pureVars>>

\* handleStopExtraction: abortControllerRef.current?.abort()
StopExtraction ==
    /\ pc # "idle"
    /\ ~aborted
    /\ signals' = [signals EXCEPT ![Len(signals)] = TRUE]
    /\ succeededAtAbort' = succeeded
    /\ UNCHANGED <<config, pc, itemsRemaining, effectiveConcurrency,
                   isSuccess, batches, workers, managedFiles, error, invoked,
                   emitted, succeeded, raised, cacheVars, pureVars>>

Next ==
    \/ StartWorkflow
    \/ \E w \in DOMAIN workers, result \in Results : TaskReturns(w, result)
    \/ \E w \in DOMAIN workers, msg \in ErrorMessages : TaskThrows(w, msg)
    \/ ResumeWorkflow
    \/ StopExtraction

Spec == Init /\ [][Next]_vars

\* ---- stratigraphyPreprocess.ts: dedupeCandidates ----
MaxCandidates == 3

\* names the candidate regex can produce (every token starts with a capital);
\* as strings of characters, so that toLowerCase has something to do
CandidateNames ==
    {<<"A", "b">>, <<"A", "B">>, <<"C", "d">>, <<"C", "D">>}

\* String.prototype.toLowerCase, one character
LowerChar(c) ==
    CASE c = "A" -> "a"
      [] c = "B" -> "b"
      [] c = "C" -> "c"
      [] c = "D" -> "d"
      [] OTHER -> c

ToLowerCase(name) == [i \in DOMAIN name |-> LowerChar(name[i])]

\* variant that compares the names as written
DedupeKeyCaseSensitive(name) == name

\* const key = c.name.toLowerCase()
DedupeKey(name) == ToLowerCase(name)

\* what the while loop of extractStratCandidates pushes: the matches of a
\* global regex, in text order, so with strictly increasing index
CandidateLists ==
    UNION {[1..n -> CandidateNames] : n \in 0..MaxCandidates}

Matches(names) == [k \in DOMAIN names |-> [name |-> names[k], index |-> k]]

\* the orchestrator at rest while a pure function is examined
OrchestratorIdle ==
    /\ concurrencyLimit = 1
    /\ apiKeys = <<1>>
    /\ initialItems = <<>>
    /\ InitWorkflow
    /\ CacheIdle

InitDedupe ==
    /\ OrchestratorIdle
    /\ \E names \in CandidateLists :
         preprocess = [pc |-> "loop", list |-> Matches(names), i |-> 1,
                       seen |-> {}, out |-> <<>>]
    /\ hasher = Idle
    /\ scanner = Idle

\* one iteration of "for (const c of list)", or the return after the last
DedupeStep ==
    /\ preprocess.pc = "loop"
    /\ LET c == preprocess.list[preprocess.i]
           key == DedupeKey(c.name)
       IN \/ /\ preprocess.i > Len(preprocess.list)
             /\ preprocess' = [preprocess EXCEPT !.pc = "done"]
          \/ /\ preprocess.i <= Len(preprocess.list)
             /\ key \in preprocess.seen
             /\ preprocess' = [preprocess EXCEPT !.i = @ + 1]
          \/ /\ preprocess.i <= Len(preprocess.list)
             /\ key \notin preprocess.seen
             /\ preprocess' = [preprocess EXCEPT !.i = @ + 1,
                                                !.seen = @ \cup {key},
                                                !.out = Append(@, c)]
    /\ UNCHANGED <<config, pc, itemsRemaining, effectiveConcurrency,
                   isSuccess, batches, workers, signals, managedFiles, error,
                   invoked, emitted, succeeded, succeededAtAbort, raised,
                   hasher, scanner, cacheVars>>

NextDedupe == DedupeStep

DedupeSpec == InitDedupe /\ [][NextDedupe]_vars


\* ---- the cache key of one file under two schema snapshots ----
InitHash ==
    /\ OrchestratorIdle
    /\ preprocess = Idle
    /\ scanner = Idle
    /\ \E text \in Texts, a \in OrderedObjects, b \in OrderedObjects,
          turbo \in BOOLEAN :
         /\ SameContent(a, b)
         /\ hasher = [pc |-> "start", text |-> text, schemaA |-> a,
                      schemaB |-> b, modelName |-> "gemini-2.5-flash",
                      isTurboMode |-> turbo]

\* the cache key is computed for the same file under either snapshot
ComputeCacheKeys ==
    /\ hasher.pc = "start"
    /\ hasher' = [pc |-> "done", text |-> hasher.text,
                  schemaA |-> hasher.schemaA, schemaB |-> hasher.schemaB,
                  keyA |-> CacheKey(hasher.text, hasher.schemaA,
                                    hasher.modelName, hasher.isTurboMode),
                  keyB |-> CacheKey(hasher.text, hasher.schemaB,
                                    hasher.modelName, hasher.isTurboMode)]
    /\ UNCHANGED <<config, pc, itemsRemaining, effectiveConcurrency,
                   isSuccess, batches, workers, signals, managedFiles, error,
                   invoked, emitted, succeeded, succeededAtAbort, raised,
                   preprocess, scanner, cacheVars>>

NextHash == ComputeCacheKeys

HashSpec == InitHash /\ [][NextHash]_vars


\* ---- extractEntities: the scanner of the response stream ----
MaxObjects == 2
MaxValueLen == 2

Quote == "\""
Backslash == "\\"
EntityChars == {"a", Quote, Backslash}

\* the non-empty entity names the model may stream
EntityNames ==
    UNION {[1..n -> EntityChars] : n \in 1..MaxValueLen}

\* the escaping of a JSON string literal
RECURSIVE Escape(_)
Escape(str) ==
    IF str = <<>> THEN <<>>
    ELSE (IF Head(str) \in {Quote, Backslash}
          THEN <<Backslash, Head(str)>>
          ELSE <<Head(str)>>) \o Escape(Tail(str))

EntityKey == <<"e", "n", "t", "i", "t", "y">>

\* the serialized text of the object {entity: name}
Serialize(name) ==
    <<"{", Quote>> \o EntityKey \o <<Quote, ":", Quote>> \o Escape(name)
        \o <<Quote, "}">>

RECURSIVE Concat(_)
Concat(strs) ==
    IF strs = <<>> THEN <<>> ELSE Head(strs) \o Concat(Tail(strs))

ParseError == [ok |-> FALSE]

\* the characters of a string literal after its opening quote: the decoded
\* value and the text after the closing quote
RECURSIVE ParseString(_, _)
ParseString(str, acc) ==
    IF str = <<>> THEN ParseError
    ELSE IF Head(str) = Quote
    THEN [ok |-> TRUE, value |-> acc, rest |-> Tail(str)]
    ELSE IF Head(str) = Backslash
    THEN IF Len(str) >= 2 /\ str[2] \in {Quote, Backslash}
         THEN ParseString(Tail(Tail(str)), Append(acc, str[2]))
         ELSE ParseError
    ELSE IF Head(str) \in {"{", "}", ":"} \cup EntityChars
                            \cup {EntityKey[i] : i \in DOMAIN EntityKey}
    THEN ParseString(Tail(str), Append(acc, Head(str)))
    ELSE ParseError

\* JSON.parse of a candidate object of the form {"entity":"..."}
JSONParse(objectString) ==
    LET prefix == <<"{", Quote>> \o EntityKey \o <<Quote, ":", Quote>>
        n == Len(prefix)
    IN IF Len(objectString) > n /\ SubSeq(objectString, 1, n) = prefix
       THEN LET lit == ParseString(SubSeq(objectString, n + 1,
                                          Len(objectString)), <<>>)
            IN IF lit.ok /\ lit.rest = <<"}">>
               THEN [ok |-> TRUE, entity |-> lit.value]
               ELSE ParseError
       ELSE ParseError

\* buffer.indexOf('{', from), 0 when there is none (positions count from 1)
RECURSIVE IndexOfBrace(_, _)
IndexOfBrace(buffer, from) ==
    IF from > Len(buffer) THEN 0
    ELSE IF buffer[from] = "{" THEN from
    ELSE IndexOfBrace(buffer, from + 1)

\* the inner for loop: the position of the brace closing the object, 0 when
\* the buffer ends first
RECURSIVE FindEnd(_, _, _, _)
FindEnd(buffer, i, braceCount, inString) ==
    IF i > Len(buffer) THEN 0
    ELSE LET char == buffer[i]
             inStr == IF char = Quote /\ buffer[i - 1] # Backslash
                      THEN ~inString ELSE inString
             count == IF inStr THEN braceCount
                      ELSE IF char = "{" THEN braceCount + 1
                      ELSE IF char = "}" THEN braceCount - 1
                      ELSE braceCount
         IN IF ~inStr /\ count = 0 THEN i
            ELSE FindEnd(buffer, i + 1, count, inStr)

\* the callbacks one candidate object causes
OnObject(objectString) ==
    LET item == JSONParse(objectString)
    IN IF item.ok /\ item.entity # <<>> THEN <<item.entity>> ELSE <<>>

\* the while (true) loop over one buffer: the callbacks made, the candidate
\* objects cut out and the position the buffer is cut at
RECURSIVE ScanBuffer(_, _, _, _)
ScanBuffer(buffer, lastIndex, received, spans) ==
    LET startIndex == IndexOfBrace(buffer, lastIndex)
    IN IF startIndex = 0
       THEN [received |-> received, spans |-> spans, lastIndex |-> lastIndex]
       ELSE LET endIndex == FindEnd(buffer, startIndex + 1, 1, FALSE)
            IN IF endIndex = 0
               THEN [received |-> received, spans |-> spans,
                     lastIndex |-> lastIndex]
               ELSE LET objectString == SubSeq(buffer, startIndex, endIndex)
                    IN ScanBuffer(buffer, endIndex + 1,
                                  received \o OnObject(objectString),
                                  Append(spans, objectString))

SubstringDroppingAll(buffer, lastIndex) ==
    IF lastIndex > 1 THEN <<>> ELSE buffer

\* if (lastIndex > 0) buffer = buffer.substring(lastIndex), positions from 1
Substring(buffer, lastIndex) == SubSeq(buffer, lastIndex, Len(buffer))

RECURSIVE Repeat(_, _)
Repeat(x, n) == IF n = 0 THEN <<>> ELSE <<x>> \o Repeat(x, n - 1)

\* a call of extractEntities whose stream has opened
Streaming(names, text, segmented) ==
    [pc |-> "stream", supported |-> TRUE, hasKey |-> TRUE,
     objects |-> names, segmented |-> segmented, rest |-> text,
     fed |-> <<>>, buffer |-> <<>>, received |-> <<>>, spans |-> <<>>,
     log |-> <<>>, aborted |-> FALSE, failed |-> FALSE]

InitScan ==
    /\ OrchestratorIdle
    /\ preprocess = Idle
    /\ hasher = Idle
    /\ \E n \in 0..MaxObjects :
         \E names \in [1..n -> EntityNames] :
            scanner = Streaming(names,
                                Concat([i \in 1..n |-> Serialize(names[i])]),
                                TRUE)

ScanUnchanged ==
    UNCHANGED <<config, pc, itemsRemaining, effectiveConcurrency, isSuccess,
                batches, workers, signals, managedFiles, error, invoked,
                emitted, succeeded, succeededAtAbort, raised, preprocess,
                hasher, cacheVars>>

\* one iteration of for await (const chunk of responseStream)
NextChunk ==
    /\ scanner.pc = "stream"
    /\ scanner.rest # <<>>
    /\ \/ /\ scanner.aborted
          /\ scanner' = [scanner EXCEPT !.pc = "done",
                                        !.log = Append(@, "end")]
       \/ /\ ~scanner.aborted
          /\ \E k \in 1..Len(scanner.rest) :
               LET chunk == SubSeq(scanner.rest, 1, k)
                   buffer == scanner.buffer \o chunk
                   scan == ScanBuffer(buffer, 1, <<>>, <<>>)
               IN scanner' =
                    [scanner EXCEPT
                       !.rest = SubSeq(scanner.rest, k + 1,
                                       Len(scanner.rest)),
                       !.fed = @ \o chunk,
                       !.buffer = Substring(buffer, scan.lastIndex),
                       !.received = @ \o scan.received,
                       !.spans = @ \o scan.spans,
                       !.log = @ \o Repeat("entity", Len(scan.received))]
    /\ ScanUnchanged

\* the stream is exhausted: finally onStreamEnd()
StreamEnd ==
    /\ scanner.pc = "stream"
    /\ scanner.rest = <<>>
    /\ scanner' = [scanner EXCEPT !.pc = "done", !.log = Append(@, "end")]
    /\ ScanUnchanged

\* the caller aborts the signal while the call is running
AbortStream ==
    /\ scanner.pc \in {"call", "stream"}
    /\ ~scanner.aborted
    /\ scanner' = [scanner EXCEPT !.aborted = TRUE]
    /\ ScanUnchanged

NextScan == NextChunk \/ StreamEnd \/ AbortStream

ScanSpec == InitScan /\ [][NextScan]_vars

\* ---- extractEntities: the whole call, on any response text ----
MaxTextLen == 5
MaxSegments == 2

SpanChars == {"{", "}", Quote, Backslash, "a"}

ShortTexts == UNION {[1..n -> SpanChars] : n \in 0..MaxTextLen}

\* brace-balanced spans that are not an object of the expected shape
MalformedSpans ==
    {<<"{", "}">>, <<"{", "a", "}">>, <<"{", "{", "a", "}", "}">>,
     <<"{", Quote, "}", Quote, "}">>}

\* a response written object by object: an expected name or a malformed span
Segments ==
    {[name |-> <<name>>, text |-> Serialize(name)] : name \in EntityNames}
        \cup {[name |-> <<>>, text |-> span] : span \in MalformedSpans}

SegmentLists == UNION {[1..n -> Segments] : n \in 1..MaxSegments}

CatchWithoutFinally(s) ==
    [s EXCEPT !.pc = "done", !.failed = TRUE,
              !.log = @ \o (IF s.aborted THEN <<>> ELSE <<"error">>)]

\* the catch and finally blocks
CatchAndEnd(s) ==
    [s EXCEPT !.pc = "done", !.failed = TRUE,
              !.log = @ \o (IF s.aborted THEN <<>> ELSE <<"error">>)
                        \o <<"end">>]

InitStream ==
    /\ OrchestratorIdle
    /\ preprocess = Idle
    /\ hasher = Idle
    /\ \E supported \in BOOLEAN, hasKey \in BOOLEAN :
         \/ \E text \in ShortTexts :
               scanner = [Streaming(<<>>, text, FALSE)
                            EXCEPT !.pc = "call", !.supported = supported,
                                   !.hasKey = hasKey]
         \/ \E segs \in SegmentLists :
               scanner = [Streaming(
                            Concat([i \in DOMAIN segs |-> segs[i].name]),
                            Concat([i \in DOMAIN segs |-> segs[i].text]),
                            TRUE)
                            EXCEPT !.pc = "call", !.supported = supported,
                                   !.hasKey = hasKey]

\* extractEntities from its call to the first chunk of the stream; the
\* third case is the guard of suggestRelationships, which reports no error
CallExtract ==
    /\ scanner.pc = "call"
    /\ \/ /\ ~scanner.supported
          /\ scanner' = [scanner EXCEPT !.pc = "done",
                                        !.log = @ \o <<"error", "end">>]
       \/ /\ scanner.supported
          /\ ~scanner.hasKey
          /\ scanner' = [scanner EXCEPT !.pc = "done",
                                        !.log = @ \o <<"error", "end">>]
       \/ /\ ~scanner.supported \/ ~scanner.hasKey
          /\ scanner' = [scanner EXCEPT !.pc = "done",
                                        !.log = @ \o <<"end">>]
       \/ /\ scanner.supported
          /\ scanner.hasKey
          /\ scanner' = [scanner EXCEPT !.pc = "stream"]
       \/ /\ scanner.supported
          /\ scanner.hasKey
          /\ scanner' = CatchAndEnd(scanner)
    /\ ScanUnchanged

\* the response stream rejects while it is read
StreamThrows ==
    /\ scanner.pc = "stream"
    /\ scanner' = CatchAndEnd(scanner)
    /\ ScanUnchanged

NextStream ==
    CallExtract \/ NextChunk \/ StreamEnd \/ StreamThrows \/ AbortStream

StreamSpec == InitStream /\ [][NextStream]_vars


\* ---- handleStartExtraction in turbo mode ----
InitCache ==
    /\ concurrencyLimit \in 1..MaxFiles
    /\ apiKeys \in {Iota(n) : n \in 1..MaxFiles}
    /\ initialItems = <<>>
    /\ \E n \in 1..MaxFiles :
         /\ fileTexts \in [1..n -> Texts \cup {<<>>}]
         /\ managedFiles = [f \in 1..n |-> [step |-> "ready", message |-> ""]]
         /\ invoked = [f \in 1..n |-> 0]
         /\ emitted = [f \in 1..n |-> 0]
         /\ localResults = [f \in 1..n |-> NoResult]
    /\ WithText(fileTexts) # {}
    /\ pc = "idle"
    /\ itemsRemaining = <<>>
    /\ effectiveConcurrency = 0
    /\ isSuccess = TRUE
    /\ batches = <<>>
    /\ workers = <<>>
    /\ signals = <<FALSE>>
    /\ error = <<>>
    /\ succeeded = {}
    /\ succeededAtAbort = {}
    /\ raised = {}
    /\ caller = "handleStartExtraction"
    /\ \E earlier \in [CacheKeys -> {NeverPut} \cup {Put(r) : r \in Results}],
          damaged \in SUBSET CacheKeys :
         /\ \A k \in damaged : ~earlier[k].put
         /\ lastPut = earlier
         /\ localStorage = [k \in CacheKeys |->
                               IF earlier[k].put
                               THEN Stored(ResultStringify(earlier[k].result))
                               ELSE IF k \in damaged THEN Stored(Truncated)
                               ELSE Absent]
    /\ cacheHits = {}
    /\ lookups = <<>>
    /\ calls = 0
    /\ degradedBefore = FALSE
    /\ step = "ready"
    /\ PureIdle

\* the aggregation: every file with a result becomes 'complete'
Aggregate(files, results) ==
    [f \in DOMAIN files |->
        IF results[f].has THEN [files[f] EXCEPT !.step = "complete"]
        ELSE files[f]]

\* the scheduler state of a new call: a new AbortController, the statuses
\* reset by handleNewSession and set by the cache check, and none of the
\* settled workers of the calls before
NewSession(files) ==
    [batches |-> <<>>, workers |-> <<>>, managedFiles |-> files,
     invoked |-> [f \in DOMAIN files |-> 0], signals |-> <<FALSE>>]

\* handleStartExtraction up to the await of handleExtractionWorkflow, or to
\* its end when every file is answered from the cache. The user starts a
\* call once the previous call has ended and its requests have settled.
StartExtraction ==
    /\ caller = "handleStartExtraction"
    /\ pc \in {"idle", "finished"}
    /\ InFlight = {}
    /\ calls < MaxCalls
    /\ Len(apiKeys) # 0
    /\ WithText(fileTexts) # {}
    /\ LET hits == CachedFiles(fileTexts, localStorage)
           filesToProcessRemotely ==
               FilesToProcessRemotely(fileTexts, localStorage)
           results == [f \in DOMAIN fileTexts |->
                          IF f \in hits
                          THEN HasResult(Lookup(localStorage,
                                   FileKey(fileTexts[f])).result)
                          ELSE NoResult]
           files == [f \in DOMAIN fileTexts |->
                        [step |-> IF fileTexts[f] = <<>> THEN "complete"
                                  ELSE IF f \in hits THEN "cached"
                                  ELSE "ready",
                         message |-> ""]]
       IN /\ initialItems' = filesToProcessRemotely
          /\ localResults' = results
          /\ cacheHits' = hits
          /\ lookups' = lookups \o LookupsFrom(fileTexts, localStorage, 1)
          /\ IF Len(filesToProcessRemotely) > 0
             THEN LoopHead(filesToProcessRemotely,
                           InitialConcurrency(concurrencyLimit, Len(apiKeys),
                                              Len(filesToProcessRemotely)),
                           TRUE, <<>>, NewSession(files))
             ELSE /\ pc' = "finished"
                  /\ managedFiles' = Aggregate(files, results)
                  /\ error' = <<>>
                  /\ batches' = <<>>
                  /\ workers' = <<>>
                  /\ invoked' = NewSession(files).invoked
                  /\ UNCHANGED <<itemsRemaining, effectiveConcurrency,
                                 isSuccess>>
    /\ signals' = <<FALSE>>
    /\ step' = IF Len(FilesToProcessRemotely(fileTexts, localStorage)) > 0
               THEN "extractingRelationships"
               ELSE "complete"
    /\ calls' = calls + 1
    /\ degradedBefore' =
         (degradedBefore
            \/ \E i \in DOMAIN error : error[i].kind = "RateLimitSwitch")
    /\ emitted' = [f \in DOMAIN fileTexts |-> 0]
    /\ succeeded' = {}
    /\ succeededAtAbort' = {}
    /\ raised' = {}
    /\ UNCHANGED <<concurrencyLimit, apiKeys, caller, fileTexts,
                   localStorage, lastPut, pureVars>>

\* handleStartExtraction after the await of handleExtractionWorkflow
FinishExtraction ==
    /\ caller = "handleStartExtraction"
    /\ pc = "returned"
    /\ pc' = "finished"
    /\ managedFiles' = IF isSuccess /\ ~aborted
                       THEN Aggregate(managedFiles, localResults)
                       ELSE managedFiles
    /\ step' = IF ~isSuccess THEN "error"
               ELSE IF aborted THEN step
               ELSE "complete"
    /\ UNCHANGED <<config, itemsRemaining, effectiveConcurrency, isSuccess,
                   batches, workers, signals, error, invoked, emitted,
                   succeeded, succeededAtAbort, raised, caller, fileTexts,
                   localStorage, localResults, cacheHits, lookups, lastPut,
                   calls, degradedBefore, pureVars>>

NextCache ==
    \/ StartExtraction
    \/ \E w \in DOMAIN workers, result \in Results : TaskReturns(w, result)
    \/ \E w \in DOMAIN workers, msg \in ErrorMessages : TaskThrows(w, msg)
    \/ ResumeWorkflow
    \/ FinishExtraction
    \/ StopExtraction

CacheSpec == InitCache /\ [][NextCache]_vars

\* ---- a second handleStartExtraction call while the first still awaits ----
\* isProcessing: some file is in a processing step ('extracting' stands for
\* the steps the task functions set)
isProcessing(files) == \E f \in DOMAIN files : files[f].step = "extracting"

\* the call awaits processBatch and Promise.all has not settled: a click is
\* handled only then or between calls, because the continuations of a
\* settled await run as microtasks before the next event
AwaitingRequests ==
    /\ pc = "await"
    /\ batches[Len(batches)].settled = "pending"

\* the "New Session" button, which is never disabled
HandleNewSession ==
    /\ caller = "handleStartExtraction"
    /\ pc \in {"idle", "finished"} \/ AwaitingRequests
    /\ managedFiles' = [f \in DOMAIN managedFiles |->
                           [managedFiles[f] EXCEPT !.step = "ready"]]
    /\ step' = "ready"
    /\ error' = <<>>
    /\ UNCHANGED <<config, pc, itemsRemaining, effectiveConcurrency,
                   isSuccess, batches, workers, signals, invoked, emitted,
                   succeeded, succeededAtAbort, raised, caller, fileTexts,
                   localStorage, localResults, cacheHits, lookups, lastPut,
                   calls, degradedBefore, pureVars>>

\* the statuses after the cache check of a call
CheckedFiles(texts, storage) ==
    [f \in DOMAIN texts |->
        [step |-> IF texts[f] = <<>> THEN "complete"
                  ELSE IF f \in CachedFiles(texts, storage) THEN "cached"
                  ELSE "ready",
         message |-> ""]]

\* the localResults map after the cache check of a call
CheckedResults(texts, storage) ==
    [f \in DOMAIN texts |->
        IF f \in CachedFiles(texts, storage)
        THEN HasResult(Lookup(storage, FileKey(texts[f])).result)
        ELSE NoResult]

\* handleStartExtraction, called through the Extract button while an earlier
\* call awaits its requests, in the case where the cache answers every file:
\* the call replaces the AbortController, resets the session, aggregates and
\* ends without an await. Its localResults map is its own: localResults,
\* cacheHits and the history variables stay those of the call that awaits.
RestartExtraction ==
    /\ caller = "handleStartExtraction"
    /\ AwaitingRequests
    /\ ~isProcessing(managedFiles)
    /\ calls < MaxCalls
    /\ Len(apiKeys) # 0
    /\ WithText(fileTexts) # {}
    /\ Len(FilesToProcessRemotely(fileTexts, localStorage)) = 0
    /\ signals' = Append(signals, FALSE)
    /\ managedFiles' = Aggregate(CheckedFiles(fileTexts, localStorage),
                                 CheckedResults(fileTexts, localStorage))
    /\ step' = "complete"
    /\ error' = <<>>
    /\ lookups' = lookups \o LookupsFrom(fileTexts, localStorage, 1)
    /\ calls' = calls + 1
    /\ UNCHANGED <<config, pc, itemsRemaining, effectiveConcurrency,
                   isSuccess, batches, workers, invoked, emitted, succeeded,
                   succeededAtAbort, raised, caller, fileTexts, localStorage,
                   localResults, cacheHits, lastPut, degradedBefore,
                   pureVars>>

NextRestart ==
    \/ StartExtraction
    \/ \E w \in DOMAIN workers, result \in Results : TaskReturns(w, result)
    \/ \E w \in DOMAIN workers, msg \in ErrorMessages : TaskThrows(w, msg)
    \/ ResumeWorkflow
    \/ FinishExtraction
    \/ StopExtraction
    \/ HandleNewSession
    \/ RestartExtraction

RestartSpec == InitCache /\ [][NextRestart]_vars


\* every in-flight network call eventually settles, and a settled await
\* resumes its async function; the user is never obliged to press Stop
Settles ==
    \E w \in DOMAIN workers :
        \/ \E result \in Results : TaskReturns(w, result)
        \/ \E msg \in ErrorMessages : TaskThrows(w, msg)

FairSpec ==
    /\ Init /\ [][Next]_vars
    /\ WF_vars(StartWorkflow)
    /\ WF_vars(ResumeWorkflow)
    /\ WF_vars(Settles)

\* ---- shared vocabulary of the properties ----
ConfiguredBound ==
    Min2(concurrencyLimit, Min2(Len(apiKeys), Len(initialItems)))

StartedParallel ==
    InitialConcurrency(concurrencyLimit, Len(apiKeys), Len(initialItems)) > 1

RateLimited == {r \in raised : Includes429(r.message)}
Terminal == {r \in raised : ~Includes429(r.message)}

ErrorEntries == {error[i] : i \in DOMAIN error}

Degraded == \E e \in ErrorEntries : e.kind = "RateLimitSwitch"

FailedWorkers(b) ==
    {w \in DOMAIN workers : workers[w].batch = b /\ workers[w].st = "thrown"}

\* C1: while no worker invocation has failed, the number of invocations in
\* flight never exceeds min(concurrencyLimit, |apiKeys|, |tasks|).
C1_ParallelismBound ==
    raised = {} => Cardinality(InFlight) <= ConfiguredBound

C1_Witness ==
    /\ raised = {}
    /\ succeeded # {}
    /\ Len(initialItems) > ConfiguredBound
    /\ ConfiguredBound >= 2
    /\ Cardinality(InFlight) = ConfiguredBound

\* C2 (as stated): a batch that starts with concurrency > 1 and sees exactly
\* one failure, a rate-limit one, ends with concurrency 1, the failed task
\* invoked again, every task emitted and the workflow returning success.
C2_Outcome ==
    /\ pc = "returned"
    /\ isSuccess
    /\ effectiveConcurrency = 1
    /\ \A r \in raised : invoked[r.item] >= 2
    /\ \A f \in DOMAIN emitted : emitted[f] >= 1

OneRateLimitOnly == Cardinality(raised) = 1 /\ Terminal = {}

\* the retry of the rate-limited task has been invoked and has succeeded
RetrySucceeded ==
    \A r \in raised : invoked[r.item] >= 2 /\ r.item \in succeeded

C2_AsStated ==
    <>[](StartedParallel /\ OneRateLimitOnly /\ RetrySucceeded)
        => <>C2_Outcome

\* C2 (amended): the same, provided the abort signal is never set during
\* the workflow.
C2_DegradeAndComplete ==
    <>[](StartedParallel /\ OneRateLimitOnly /\ ~aborted) => <>C2_Outcome

C2_Witness ==
    /\ StartedParallel
    /\ OneRateLimitOnly
    /\ ~aborted
    /\ InFlight = {}
    /\ C2_Outcome

\* C3: a rate-limit failure raised while the workflow runs with effective
\* concurrency 1 is followed by no further processBatch call, makes the
\* workflow return failure and is reported with the name of the failed task.
C3_SequentialRateLimitReported ==
    \A r \in RateLimited :
        (r.workflow = "await" /\ r.concurrency = 1) =>
            /\ Len(batches) = r.runs
            /\ pc = "returned" =>
                 /\ ~isSuccess
                 /\ \E e \in ErrorEntries :
                        e.kind = "RateLimitStop" /\ e.file = r.item

\* C4: a failure whose message lacks "429" is followed by no further
\* processBatch call and no further invocation of the failed task, makes the
\* workflow return failure and sets the task's status message to the error's.
C4_TerminalErrorStops ==
    \A r \in Terminal :
        /\ Len(batches) = r.runs
        /\ invoked[r.item] = r.invocations
        /\ pc = "returned" =>
             /\ ~isSuccess
             /\ \E e \in ErrorEntries :
                    /\ e.kind = "Failed"
                    /\ e.file = r.item
                    /\ e.message = r.message

\* C5: once the workflow has returned, every non-rate-limit error raised by
\* any worker has made it fail and is reported with its task's name.
C5_NoTerminalErrorDropped ==
    pc = "returned" =>
        \A r \in Terminal :
            /\ ~isSuccess
            /\ \E e \in ErrorEntries : e.kind = "Failed" /\ e.file = r.item

\* C6: once the abort signal is set, no task is dequeued (no queue shrinks,
\* no invocation starts) and onResult is not called for any task whose
\* invocation had not returned successfully before the abort.
C6_AbortStopsDequeueAndEmit ==
    [][aborted =>
        /\ \A b \in DOMAIN batches : batches'[b].queue = batches[b].queue
        /\ invoked' = invoked
        /\ \A f \in DOMAIN emitted :
             f \notin succeededAtAbort => emitted'[f] = emitted[f]]_vars

C6_Witness ==
    /\ aborted
    /\ \E b \in DOMAIN batches : Len(batches[b].queue) > 0
    /\ \E f \in succeeded \ succeededAtAbort : emitted[f] = 0

\* C7: cancellation is never reported through the failure path: no file
\* status and no error message carries the abort of an invocation.
C7_CancellationNotAFailure ==
    /\ \A f \in DOMAIN managedFiles : managedFiles[f].message # AbortedMsg
    /\ \A e \in ErrorEntries : e.message # AbortedMsg

\* C8: a task whose invocation has succeeded is never invoked again, and a
\* task is invoked a second time only if it failed with a rate-limit error.
C8_TaskStateMachine ==
    [][\A f \in DOMAIN invoked :
         invoked'[f] > invoked[f] =>
            /\ f \notin succeeded
            /\ invoked[f] > 0 => \E r \in RateLimited : r.item = f]_vars

\* C9: after an invocation of a batch run has failed, no worker of that run
\* dequeues a further task.
C9_NoDequeueAfterFailure ==
    [][\A b \in DOMAIN batches :
         FailedWorkers(b) # {} => batches'[b].queue = batches[b].queue]_vars

\* C10: after a rate-limit failure lowered effective concurrency to 1, at
\* most one invocation is in flight, whichever run started it.
C10_SequentialAfterDegradation ==
    Degraded => Cardinality(InFlight) <= 1

\* C17: within one processBatch run the k-th dequeue (k from 0) is given
\* keys[k mod |keys|], so any |keys| consecutive dequeues use every
\* credential exactly once.
C17_RoundRobinKeys ==
    \A b \in DOMAIN batches :
        LET log == batches[b].dequeued
            n == Len(apiKeys)
        IN /\ \A k \in DOMAIN log :
                log[k].apiKey = apiKeys[((k - 1) % n) + 1]
           /\ \A k \in DOMAIN log :
                k + n - 1 <= Len(log) =>
                    {log[j].apiKey : j \in k..(k + n - 1)}
                        = {apiKeys[i] : i \in DOMAIN apiKeys}

C17_Witness ==
    \E b \in DOMAIN batches :
        /\ Len(apiKeys) >= 2
        /\ Len(batches[b].dequeued) > Len(apiKeys)

\* C18: while nothing has failed and the abort signal is unset, no task is
\* emitted twice, processBatch has run at most once and effective concurrency
\* has its initial value; and a workflow that stays so ends with every task
\* emitted exactly once, one processBatch run and success.
C18_Clean == raised = {} /\ ~aborted

C18_CleanBatchCompletes ==
    /\ [](C18_Clean =>
            /\ \A f \in DOMAIN emitted : emitted[f] <= 1
            /\ Len(batches) <= 1
            /\ pc # "idle" =>
                 effectiveConcurrency = Max2(1, ConfiguredBound))
    /\ (<>[]C18_Clean =>
            <>(/\ pc = "returned"
               /\ isSuccess
               /\ Len(batches) = 1
               /\ \A f \in DOMAIN emitted : emitted[f] = 1))

C18_Witness ==
    /\ C18_Clean
    /\ pc = "returned"
    /\ isSuccess
    /\ Len(initialItems) >= 2
    /\ \A f \in DOMAIN emitted : emitted[f] = 1

\* C20: the workflow is abandoned for rate limiting only after a rate-limit
\* failure has recurred: the first one always leads to a requeue.
C20_AbandonOnlyOnRecurrence ==
    \A e \in ErrorEntries :
        e.kind = "RateLimitStop" => Cardinality(RateLimited) >= 2

C15_KeyIgnoresInsertionOrder ==
    hasher.pc = "done" => hasher.keyA = hasher.keyB

\* C16: a stream that is the concatenation of N serialized objects
\* {"entity": name}, read to its end without an abort, gives exactly the N
\* names to the callback, in order, however the text is cut into chunks.
C16_ScannerRoundTrip ==
    (scanner.pc = "done" /\ ~scanner.aborted)
        => scanner.received = scanner.objects

\* C11: every call of handleExtractionWorkflow starts with effective
\* concurrency max(1, min(concurrencyLimit, number of API keys, number of
\* tasks)), whatever degradations the calls before it went through.
C11_StartsAtOwnBound ==
    [][(calls' = calls + 1 /\ pc' = "await")
          => effectiveConcurrency'
               = Max2(1, Min2(concurrencyLimit,
                              Min2(Len(apiKeys), Len(initialItems'))))]_vars

C11_Witness ==
    /\ degradedBefore
    /\ calls = 2
    /\ pc = "await"
    /\ Len(batches) = 1
    /\ effectiveConcurrency = 2

\* C12: a file whose cache key has a stored, parseable entry when
\* handleStartExtraction runs is never queued and its task never invoked in
\* that call; its result is the parsed cache entry.
C12_CacheHitsSkipScheduler ==
    \A f \in cacheHits :
        /\ invoked[f] = 0
        /\ \A i \in DOMAIN initialItems : initialItems[i] # f
        /\ \A b \in DOMAIN batches :
             /\ \A i \in DOMAIN batches[b].queue : batches[b].queue[i] # f
             /\ \A i \in DOMAIN batches[b].dequeued :
                  batches[b].dequeued[i].item # f
        /\ \A w \in DOMAIN workers : workers[w].item # f
        /\ LET cachedData == GetItem(localStorage, FileKey(fileTexts[f]))
           IN /\ cachedData.present
              /\ localResults[f] = HasResult(ResultParse(cachedData.data).value)

C12_Witness ==
    \E f \in cacheHits, g \in DOMAIN invoked :
        /\ invoked[g] > 0
        /\ localResults[f].has

\* C13: once a value is stored under a cache key, no later step stores a
\* different value under that key.
C13_EntriesImmutable ==
    [][\A k \in DOMAIN localStorage :
          lastPut[k].put => localStorage'[k] = localStorage[k]]_vars

\* C14: cache lookups of one key with no store between them give the same
\* answer: a miss when no result was ever stored under the key, and the
\* stored result itself after a store.
C14_LookupsAgree ==
    /\ \A i, j \in DOMAIN lookups :
         lookups[i].key = lookups[j].key
            => lookups[i].answer = lookups[j].answer
    /\ \A i \in DOMAIN lookups :
         LET put == lastPut[lookups[i].key]
         IN lookups[i].answer = IF put.put THEN Hit(put.result) ELSE Miss

C14_Witness ==
    /\ calls = 2
    /\ Len(lookups) = 2
    /\ lookups[1].key = lookups[2].key
    /\ lookups[1].answer.hit
    /\ WithText(fileTexts) = {1, 2}

\* C21: whenever two or more worker invocations are in flight and there are
\* at least two API keys, the invocations in flight do not all use the same
\* key.
C21_InFlightKeysDiffer ==
    (Cardinality(InFlight) >= 2 /\ Len(apiKeys) >= 2)
        => \E v, w \in InFlight : workers[v].apiKey # workers[w].apiKey

C25_ChunkingIrrelevant ==
    LET whole == ScanBuffer(scanner.fed, 1, <<>>, <<>>)
    IN /\ scanner.spans = whole.spans
       /\ scanner.received = whole.received
       /\ scanner.buffer
            = SubSeq(scanner.fed, whole.lastIndex, Len(scanner.fed))

C25_Witness ==
    /\ scanner.pc = "stream"
    /\ ~scanner.aborted
    /\ scanner.segmented
    /\ Len(scanner.spans) = 1
    /\ scanner.buffer # <<>>
    /\ scanner.rest # <<>>

\* the reference scanner of C23: the number of backslashes right before
\* position i, back to the opening brace at position start
RECURSIVE BackslashesBefore(_, _, _)
BackslashesBefore(buffer, i, start) ==
    IF i - 1 > start /\ buffer[i - 1] = Backslash
    THEN 1 + BackslashesBefore(buffer, i - 1, start)
    ELSE 0

RECURSIVE RefFindEnd(_, _, _, _, _)
RefFindEnd(buffer, start, i, depth, inString) ==
    IF i > Len(buffer) THEN 0
    ELSE LET char == buffer[i]
             inStr == IF char = Quote
                         /\ BackslashesBefore(buffer, i, start) % 2 = 0
                      THEN ~inString ELSE inString
             d == IF inStr THEN depth
                  ELSE IF char = "{" THEN depth + 1
                  ELSE IF char = "}" THEN depth - 1
                  ELSE depth
         IN IF ~inStr /\ d = 0 THEN i
            ELSE RefFindEnd(buffer, start, i + 1, d, inStr)

RECURSIVE RefSpans(_, _)
RefSpans(buffer, from) ==
    LET start == IndexOfBrace(buffer, from)
    IN IF start = 0 THEN <<>>
       ELSE LET end == RefFindEnd(buffer, start, start + 1, 1, FALSE)
            IN IF end = 0 THEN <<>>
               ELSE <<SubSeq(buffer, start, end)>> \o RefSpans(buffer, end + 1)

\* C23: on every text the scanner cuts out the spans of the reference
\* scanner, in which a quote toggles string mode exactly when an even number
\* of backslashes precedes it and braces count only outside strings.
C23_SpansMatchReference ==
    scanner.spans = RefSpans(scanner.fed, 1)

\* C24: when the first span of a stream is brace-balanced but not an object
\* of the expected shape, the scanner emits nothing for it, reports no
\* error, goes on right after it and emits every later object of the stream.
C24_MalformedSpanSkipped ==
    (/\ scanner.pc = "done"
     /\ scanner.segmented
     /\ ~scanner.aborted
     /\ ~scanner.failed
     /\ Len(scanner.spans) >= 1
     /\ scanner.spans[1] \in MalformedSpans)
        => /\ scanner.received = scanner.objects
           /\ \A i \in DOMAIN scanner.log : scanner.log[i] # "error"
           /\ Concat(scanner.spans) = scanner.fed

\* the callbacks of one call so far: onStreamEnd at most once and last,
\* exactly once when the call is over; onError at most once
CallbacksInOrder(s) ==
    LET ends == {i \in DOMAIN s.log : s.log[i] = "end"}
        errors == {i \in DOMAIN s.log : s.log[i] = "error"}
    IN /\ Cardinality(ends) <= 1
       /\ Cardinality(errors) <= 1
       /\ ends \subseteq {Len(s.log)}
       /\ s.pc = "done" <=> ends # {}

\* C30: every call invokes onStreamEnd exactly once whatever path it takes
\* and onError at most once and before onStreamEnd; no entity callback comes
\* after onStreamEnd or in a step that starts with the abort signal set.
C30_StreamCallbacks ==
    [][/\ CallbacksInOrder(scanner')
       /\ scanner.aborted => scanner'.received = scanner.received]_vars

C30_Witness ==
    /\ scanner.pc = "done"
    /\ scanner.failed
    /\ ~scanner.aborted
    /\ scanner.received # <<>>
    /\ Len(scanner.log) >= 3
    /\ scanner.log[Len(scanner.log) - 1] = "error"

\* the tasks a run has taken from its queue, in order
Taken(b) == [i \in DOMAIN batches[b].dequeued |-> batches[b].dequeued[i].item]

\* C28: in a processBatch run no task is dequeued twice or by two workers,
\* and a run that ends without failure or cancellation has dequeued every
\* task of its queue.
C28_EachTaskDequeuedOnce ==
    \A b \in DOMAIN batches :
        /\ \A i, j \in DOMAIN Taken(b) : Taken(b)[i] = Taken(b)[j] => i = j
        /\ \A i \in DOMAIN Taken(b), j \in DOMAIN batches[b].queue :
             Taken(b)[i] # batches[b].queue[j]
        /\ \A v, w \in InFlight :
             (workers[v].batch = b /\ workers[w].batch = b
                /\ workers[v].item = workers[w].item) => v = w
        /\ b = 1 => Taken(b) \o batches[b].queue = initialItems
        /\ (batches[b].settled = "resolved" /\ ~aborted)
              => batches[b].queue = <<>>

C28_Witness ==
    /\ Len(batches) = 1
    /\ batches[1].settled = "resolved"
    /\ ~aborted
    /\ raised = {}
    /\ Taken(1) = initialItems
    /\ Len(initialItems) = 3
    /\ Len(workers) = 2

\* the workers processBatch run b was started with
WorkersOf(b) == {w \in DOMAIN workers : workers[w].batch = b}

\* C29: when every invocation settles, handleExtractionWorkflow returns, and
\* it runs processBatch at most twice: once at the initial concurrency and
\* at most once more at concurrency 1.
C29_ReturnsWithinTwoRuns ==
    /\ <>(pc = "returned")
    /\ [](/\ Len(batches) <= 2
          /\ Len(batches) >= 1
                => Cardinality(WorkersOf(1))
                     = InitialConcurrency(concurrencyLimit, Len(apiKeys),
                                          Len(initialItems))
          /\ Len(batches) = 2 => Cardinality(WorkersOf(2)) = 1)

C29_Witness ==
    /\ pc = "returned"
    /\ Len(batches) = 2
    /\ Cardinality(WorkersOf(1)) >= 2
    /\ isSuccess

\* ---- the cache writes and the cancelled batch, with a replaced controller ----
\* a batch whose AbortController has been aborted
CancelledBatches == {b \in DOMAIN batches : signals[batches[b].signal]}

\* C27: a cancelled batch never publishes: the continuation of a call whose
\* batch was cancelled leaves the file statuses alone and does not set the
\* step to 'complete', also when a later call has replaced the controller
C27_CancelledNeverPublishes ==
    [][(pc = "returned" /\ pc' = "finished" /\ CancelledBatches # {})
         => /\ managedFiles' = managedFiles
            /\ step' = "complete" => step = "complete"]_vars

\* C26: localStorage is written only in the step in which the result of an
\* in-flight task is emitted, its batch's abort signal unset, and only under
\* that task's cache key; a rejection, or a return after cancellation (the
\* empty result of extractInTurboMode included), writes nothing
C26_CacheWrittenOnlyOnEmit ==
    [][(localStorage' # localStorage \/ lastPut' # lastPut)
         => \E w \in InFlight :
              LET item == workers[w].item
                  b == workers[w].batch
              IN /\ ~signals[batches[b].signal]
                 /\ workers'[w] # workers[w]
                 /\ raised' = raised
                 /\ emitted'[item] = emitted[item] + 1
                 /\ \A k \in CacheKeys :
                      (localStorage'[k] # localStorage[k]
                         \/ lastPut'[k] # lastPut[k])
                        => k = FileKey(fileTexts[item])]_vars

\* a task returned after its batch was cancelled and the controller replaced,
\* and an earlier task of the same call had its result cached
C26_Witness ==
    /\ Len(signals) = 2
    /\ signals[1]
    /\ \E w \in DOMAIN workers :
         /\ workers[w].st = "returned"
         /\ signals[batches[workers[w].batch].signal]
    /\ \E f \in succeeded : emitted[f] = 0
    /\ \E f \in succeeded :
         /\ emitted[f] = 1
         /\ lastPut[FileKey(fileTexts[f])].put


====
